---------------------------- MODULE Spec2Model ----------------------------
(***************************************************************************)
(* The smartwatts actor runtime: handler registration and lookup, the      *)
(* receive/dispatch/timeout loop of Actor.run, the termination protocol    *)
(* (poison pill and SIGTERM/SIGINT) and the StartHandler handshake.        *)
(*                                                                         *)
(* One actor process is modelled.  The parent builds the handler table     *)
(* with add_handler and starts the process; run() then executes            *)
(* statement by statement.  A Python signal handler runs in the main       *)
(* thread between two statements of whatever the process is executing, so  *)
(* every statement boundary of the process is a point where term_handler   *)
(* may take over, including the inside of a handler's transition.          *)
(***************************************************************************)
EXTENDS Naturals, Sequences, FiniteSets

\* ------------------------------------------------------------------ bounds
MaxHandlers == 2
MaxBatch == 2
MaxReceives == 2
MaxSignals == 2
MaxFilters == 3
MaxDicts == 2
MaxRows == 3
MaxSubscribes == 2

\* ------------------------------------------------------- message protocol
\* The runtime types of the messages an actor can receive.  HWPCReport is a
\* subclass of Report; every class is a subclass of object.
MsgTypes == {"StartMessage", "PoisonPillMessage", "Report", "HWPCReport"}

\* The type of None, the message passed to the timeout handler.
NoneType == "NoneType"

\* The classes a value of runtime type t is an instance of.
Mro(t) ==
    CASE t = "HWPCReport" -> {"HWPCReport", "Report", "object"}
      [] OTHER -> {t, "object"}

\* isinstance(msg, msg_type)
IsInstance(msg, msg_type) == msg_type \in Mro(msg)

OKMessage == "OKMessage()"

ErrorMessage(error_message) == "ErrorMessage(" \o error_message \o ")"

\* --------------------------------------------------------------- handlers
\* Handler objects: the StartHandler of the source, a handler that stops
\* the actor, two application handlers and one whose transition raises.
StartH == "StartHandler"
PillH == "PoisonPillHandler"
AppHandlers == {"HandlerA", "HandlerB"}
CrashH == "CrashHandler"
HandlerObjs == {StartH, PillH, CrashH} \cup AppHandlers

\* What get_corresponding_handler's caller sees when the scan raised.
NoHandler == "UnknowMessageTypeException"

\* timeout_handler before any is set.
None == "None"

\* The (message_type, handler) pairs the parent may register.
Registrations ==
    { <<"StartMessage", StartH>>, <<"PoisonPillMessage", PillH>>,
      <<"Report", "HandlerA">>, <<"HWPCReport", "HandlerB">>,
      <<"object", "HandlerB">>, <<"object", StartH>>,
      <<"Report", CrashH>> }

TimeoutHandlers == {"HandlerA", StartH}

\* The lists receive() may return: [] on timeout, else a batch of messages.
Batches == UNION { [1..n -> MsgTypes] : n \in 0..MaxBatch }

\* The actor's state record on entry to run().
InitState ==
    [alive |-> TRUE, initialized |-> FALSE,
     behaviour |-> "_initial_behaviour", data |-> "none"]

\* ----------------------------------------------------------------- Filter
\* The reports a filter is asked to route.
Reports == {"report1", "report2"}

\* A rule is a function from reports to booleans; it is given here by the
\* set of reports it accepts.
Rules == SUBSET Reports

\* rule(report)
Accepts(rule, r) == r \in rule

\* The addresses of the dispatchers.
Dispatchers == {"dispatcher1", "dispatcher2"}

\* What route() gives its caller when it raises instead of returning.
NoList == << "no list" >>

\* No call of route() has been made yet.
NoRoute ==
    [called |-> FALSE, report |-> "none", filters |-> << >>,
     raised |-> "none", evaluated |-> << >>, result |-> NoList]

\* ------------------------------------------------------- HWPCReportsGroup
\* The targets the reports of a group are about.
Targets == {"target1", "target2"}

\* The (group, socket_id, core_id, event_id) places an event value can have
\* in the nested "groups" dictionary, in the order in which a dictionary
\* holding them is iterated.
KeyOrder ==
    << <<"core", 0, 0, "event1">>, <<"core", 0, 1, "event1">>,
       <<"core", 0, 1, "event2">>, <<"msr", 0, 0, "core">> >>

Keys == { KeyOrder[i] : i \in 1..Len(KeyOrder) }

\* The event values.
Values == {10}

\* The nested dictionaries groups -> socket -> core -> event -> value, as
\* functions from the places they fill to the values there.
GroupsDicts == UNION { [K -> Values] : K \in SUBSET Keys }

\* TIMESTAMP_CN, SENSOR_CN, TARGET_CN and GROUPS_CN: the keys a dictionary
\* of the list must have.
RequiredKeys == {"timestamp", "sensor", "target", "groups"}

\* The key sets of the dictionaries: complete, or with one key missing.
KeySets == {RequiredKeys} \cup { RequiredKeys \ {k} : k \in RequiredKeys }

\* What the target field of a dictionary without the key "target" reads.
NoTarget == "no target"

\* One dictionary of the list: the report of one target, with the keys it
\* has; a key it lacks has no value.
ReportDicts ==
    { d \in [keys : KeySets, target : Targets \cup {NoTarget},
             groups : GroupsDicts] :
         /\ (d.target = NoTarget) <=> ("target" \notin d.keys)
         /\ ("groups" \notin d.keys) => (d.groups = << >>) }

\* The lists create_reports_group_from_dicts is given.
InputLists == UNION { [1..n -> ReportDicts] : n \in 1..MaxDicts }

\* ------------------------------------------------------------ MongoSource
\* The timestamps of the documents of the collection.
Timestamps == {1, 2, 3}

\* The collections a source reads: the timestamps of their documents in
\* the order in which a cursor returns them.
Collections == UNION { [1..n -> Timestamps] : n \in 0..MaxRows }

\* MongoSource.current_group_dicts when it is None.
NoGroupDicts == [timestamp |-> 0, dicts |-> << >>]

\* The arguments of the queries of a group: the targets, groups, sockets,
\* cores and events of the reports and, of each, one that no report has.
QueryTargets == Targets \cup {"target3"}
QueryGroups == {"core", "msr", "rapl"}
QuerySockets == {0, 1}
QueryCores == {0, 1, 2}
QueryEvents == {"event1", "event2", "core", "event3"}

\* What a query returns: None, a value, a list or a dictionary.
NoneResult == [kind |-> "None", value |-> 0, items |-> << >>]
ValueResult(v) == [kind |-> "value", value |-> v, items |-> << >>]
ListResult(l) == [kind |-> "list", value |-> 0, items |-> l]
DictResult(d) == [kind |-> "dict", value |-> 0, items |-> d]

\* An argument a query does not have.
NoArg == "no argument"

\* No query was made.
NoLookup ==
    [op |-> "none", target |-> NoArg, group |-> NoArg, socket |-> 0,
     core |-> 0, event |-> NoArg, result |-> NoneResult]

\* Nothing was raised.
NoException == [exception |-> "none", input_data |-> << >>]

VARIABLES
    handlers,         \* Actor.handlers: sequence of <<msg_type, handler>>
    timeout_handler,  \* Actor.timeout_handler
    state,            \* Actor.state
    pc,               \* position of the actor process in run()
    installed,        \* term_handler is installed for SIGTERM and SIGINT
    receives,         \* number of receive() calls made
    msg_list,         \* the list the last receive() returned
    idx,              \* position of the for loop in msg_list
    handler,          \* the handler whose transition is in flight
    hmsg,             \* the message that transition was given
    hpc,              \* position inside that transition
    hstate,           \* the state the transition works on and returns
    entry,            \* what the transition saw when it was called
    calls,            \* the transitions started for the current receive
    control,          \* messages sent on the control channel
    initCount,        \* calls of StartHandler.initialization
    cleanup,          \* terminated_behaviour and close calls, in order
    sigpc,            \* position of the innermost running term_handler
    signals,          \* SIGTERM/SIGINT deliveries handled so far
    exc,              \* the exception that ended run(), if any
    connected,        \* the caller's side of the transport is connected
    kpc,              \* position of the caller in kill()
    monitor,          \* messages the caller sent on the monitor channel
    filters,          \* Filter.filters: sequence of <<rule, dispatcher>>
    routed,           \* the last call of Filter.route and how it ended
    hw_pc,            \* what has been done with the HWPCReportsGroup
    input_dicts,      \* the list given to create_reports_group_from_dicts
    hw_raised,        \* the exception the creation of the group raised
    report,           \* HWPCReportsGroup.report: the rows of the group
    mongodb_dicts,    \* the list to_mongodb_dict returned
    lookup,           \* the last query of the group and what it returned
    ms_pc,            \* position of the caller of MongoSource
    collection,       \* the documents of MongoSource.collection
    cursor,           \* MongoSource.cursor: documents it has returned
    current_group_dicts, \* MongoSource.current_group_dicts
    emitted,          \* the groups given to on_next by this subscribe
    subscribes        \* calls of subscribe made

\* The variables of the process that holds the actor's address.
callerVars == << connected, kpc, monitor >>

\* The variables of the actor and of its process.
actorVars ==
    << handlers, timeout_handler, state, pc, installed, receives, msg_list,
       idx, handler, hmsg, hpc, hstate, entry, calls, control, initCount,
       cleanup, sigpc, signals, exc >>

\* The variables of a Filter and of what was asked of it.
filterVars == << filters, routed >>

\* The variables of an HWPCReportsGroup and of its conversions.
hwpcVars ==
    << hw_pc, input_dicts, hw_raised, report, mongodb_dicts, lookup >>

\* The variables of a MongoSource and of the operator subscribed to it.
mongoVars ==
    << ms_pc, collection, cursor, current_group_dicts, emitted, subscribes >>

vars == << actorVars, callerVars, filterVars, hwpcVars, mongoVars >>

\* Actor.__init__, with the state object the concrete actor provides.
Init ==
    /\ handlers = << >>
    /\ timeout_handler = None
    /\ state = InitState
    /\ pc = "constructed"
    /\ installed = FALSE
    /\ receives = 0
    /\ msg_list = << >>
    /\ idx = 0
    /\ handler = None
    /\ hmsg = NoneType
    /\ hpc = "none"
    /\ hstate = InitState
    /\ entry = [state |-> InitState, control |-> << >>, initCount |-> 0]
    /\ calls = << >>
    /\ control = << >>
    /\ initCount = 0
    /\ cleanup = << >>
    /\ sigpc = "none"
    /\ signals = 0
    /\ exc = "none"
    /\ connected = FALSE
    /\ kpc = "idle"
    /\ monitor = << >>
    /\ filters = << >>
    /\ routed = NoRoute
    /\ hw_pc = "start"
    /\ input_dicts = << >>
    /\ hw_raised = NoException
    /\ report = << >>
    /\ mongodb_dicts = << >>
    /\ lookup = NoLookup
    /\ ms_pc = "new"
    /\ collection = << >>
    /\ cursor = 0
    /\ current_group_dicts = NoGroupDicts
    /\ emitted = << >>
    /\ subscribes = 0


\* ------------------------------------------------- registration and lookup
\* A registration that puts the new entry in front of the table.
add_handler_front(table, message_type, h) ==
    << <<message_type, h>> >> \o table

\* Actor.add_handler: self.handlers.append((message_type, handler))
add_handler(table, message_type, h) == Append(table, <<message_type, h>>)

\* The for loop of get_corresponding_handler from entry i on: the handler
\* of the first entry whose type the message is an instance of, and the
\* raised exception when the scan runs off the end.
RECURSIVE ScanHandlers(_, _, _)
ScanHandlers(table, msg, i) ==
    IF i > Len(table) THEN NoHandler
    ELSE IF IsInstance(msg, table[i][1]) THEN table[i][2]
    ELSE ScanHandlers(table, msg, i + 1)

\* A lookup in which a later matching entry overrides an earlier one.
RECURSIVE ScanHandlersLast(_, _, _)
ScanHandlersLast(table, msg, i) ==
    IF i = 0 THEN NoHandler
    ELSE IF IsInstance(msg, table[i][1]) THEN table[i][2]
    ELSE ScanHandlersLast(table, msg, i - 1)

get_corresponding_handler_last(table, msg) ==
    ScanHandlersLast(table, msg, Len(table))

\* Actor.get_corresponding_handler(msg)
get_corresponding_handler(table, msg) == ScanHandlers(table, msg, 1)

\* StartHandler.initialization: the default hook returns the state it got.
initialization(s) == s

\* ------------------------------------------------------------ bookkeeping
\* The process is executing run() itself, not a signal handler.
Running == sigpc = "none"

\* The process has ended: run() returned, raised, or exit(0) was called.
Ended == pc \in {"done", "crashed", "exited"}

UnchangedHandlerFrame == UNCHANGED << handler, hmsg, hpc, hstate, entry >>

UnchangedConfig == UNCHANGED << handlers, timeout_handler >>

UnchangedSignal == UNCHANGED << installed, sigpc, signals >>

\* What no step of the actor or of its configuration touches.
UnchangedOutside ==
    UNCHANGED << callerVars, filterVars, hwpcVars, mongoVars >>

\* A transition is called with message m (position i of the batch, 0 for
\* the timeout call) on handler h.  Handler.handle_message passes the call
\* on to handle; the timeout handler's handle is called directly.  The
\* transition works on the state it was given (hstate) and run() sees the
\* result when the call returns and self.state is assigned; run() reads
\* self.state at no point in between.
CallHandler(h, m, i) ==
    /\ handler' = h
    /\ hmsg' = m
    /\ hpc' = "entry"
    /\ hstate' = state
    /\ entry' = [state |-> state, control |-> control, initCount |-> initCount]
    /\ calls' = Append(calls, [msg |-> i, handler |-> h, passed |-> state,
                               returned |-> FALSE, result |-> state])
    /\ pc' = "in_handler"

\* ------------------------------------------------------------ the parent
\* The parent registers a handler before starting the actor.
AddHandler ==
    /\ pc = "constructed"
    /\ Len(handlers) < MaxHandlers
    /\ \E r \in Registrations : handlers' = add_handler(handlers, r[1], r[2])
    /\ UNCHANGED << timeout_handler, state, pc, installed, receives, msg_list,
                    idx, calls, control, initCount, cleanup, sigpc, signals,
                    exc >>
    /\ UnchangedHandlerFrame
    /\ UnchangedOutside

\* The concrete actor sets its timeout handler.
SetTimeoutHandler ==
    /\ pc = "constructed"
    /\ timeout_handler = None
    /\ \E h \in TimeoutHandlers : timeout_handler' = h
    /\ UNCHANGED << handlers, state, pc, installed, receives, msg_list, idx,
                    calls, control, initCount, cleanup, sigpc, signals, exc >>
    /\ UnchangedHandlerFrame
    /\ UnchangedOutside

\* The process is started and run() begins.
StartProcess ==
    /\ pc = "constructed"
    /\ pc' = "setup"
    /\ UNCHANGED << state, installed, receives, msg_list, idx, calls, control,
                    initCount, cleanup, sigpc, signals, exc >>
    /\ UnchangedConfig /\ UnchangedHandlerFrame
    /\ UnchangedOutside

\* --------------------------------------------------------------- run()
\* Actor.setup: the transport is set up and term_handler is installed.
Setup ==
    /\ pc = "setup"
    /\ installed' = TRUE
    /\ pc' = "loop"
    /\ UNCHANGED << state, receives, msg_list, idx, calls, control, initCount,
                    cleanup, sigpc, signals, exc >>
    /\ UnchangedConfig /\ UnchangedHandlerFrame
    /\ UnchangedOutside

\* A loop test that never looks at alive.
LoopCheckIgnoresAlive ==
    /\ Running /\ pc = "loop"
    /\ pc' = "behaviour"
    /\ UNCHANGED << state, receives, msg_list, idx, calls, control, initCount,
                    cleanup, exc >>
    /\ UnchangedConfig /\ UnchangedHandlerFrame /\ UnchangedSignal
    /\ UnchangedOutside

\* while self.state.alive: ... ; self._kill_process()
LoopCheck ==
    /\ Running /\ pc = "loop"
    /\ pc' = IF state.alive THEN "behaviour" ELSE "kill_tb"
    /\ UNCHANGED << state, receives, msg_list, idx, calls, control, initCount,
                    cleanup, exc >>
    /\ UnchangedConfig /\ UnchangedHandlerFrame /\ UnchangedSignal
    /\ UnchangedOutside

\* self.state.behaviour(self), the first statement of _initial_behaviour:
\* msg_list = self.state.socket_interface.receive()
Receive ==
    /\ Running /\ pc = "behaviour"
    /\ state.behaviour = "_initial_behaviour"
    /\ receives < MaxReceives
    /\ \E batch \in Batches :
          /\ msg_list' = batch
          /\ pc' = IF batch = << >> THEN "timeout" ELSE "dispatch"
    /\ idx' = 1
    /\ calls' = << >>
    /\ receives' = receives + 1
    /\ UNCHANGED << state, control, initCount, cleanup, exc >>
    /\ UnchangedConfig /\ UnchangedHandlerFrame /\ UnchangedSignal
    /\ UnchangedOutside

\* A timeout step that calls no handler and goes back to the while test.
TimeoutSkipsHandler ==
    /\ Running /\ pc = "timeout"
    /\ IF timeout_handler = None
       THEN /\ pc' = "crashed"
            /\ exc' = "AttributeError"
       ELSE /\ pc' = "loop"
            /\ UNCHANGED exc
    /\ UNCHANGED << state, receives, msg_list, idx, calls, control, initCount,
                    cleanup >>
    /\ UnchangedConfig /\ UnchangedHandlerFrame /\ UnchangedSignal
    /\ UnchangedOutside

\* A timeout step that treats a missing timeout handler as "nothing to do"
\* and goes back to the while test.
TimeoutIgnoresMissingHandler ==
    /\ Running /\ pc = "timeout"
    /\ IF timeout_handler = None
       THEN /\ pc' = "loop"
            /\ UNCHANGED << calls, exc >>
            /\ UnchangedHandlerFrame
       ELSE /\ CallHandler(timeout_handler, NoneType, 0)
            /\ UNCHANGED exc
    /\ UNCHANGED << state, receives, msg_list, idx, control, initCount,
                    cleanup >>
    /\ UnchangedConfig /\ UnchangedSignal
    /\ UnchangedOutside

\* if msg_list == []: self.state = self.timeout_handler.handle(None, ...)
\* With no timeout handler set the attribute lookup on None raises.
Timeout ==
    /\ Running /\ pc = "timeout"
    /\ IF timeout_handler = None
       THEN /\ pc' = "crashed"
            /\ exc' = "AttributeError"
            /\ UNCHANGED calls
            /\ UnchangedHandlerFrame
       ELSE /\ CallHandler(timeout_handler, NoneType, 0)
            /\ UNCHANGED exc
    /\ UNCHANGED << state, receives, msg_list, idx, control, initCount,
                    cleanup >>
    /\ UnchangedConfig /\ UnchangedSignal
    /\ UnchangedOutside

\* A dispatch that swallows the lookup's exception and goes on with the
\* next message.
DispatchSkipsUnknown ==
    /\ Running /\ pc = "dispatch"
    /\ LET h == get_corresponding_handler(handlers, msg_list[idx]) IN
          IF h = NoHandler
          THEN /\ idx' = idx + 1
               /\ pc' = IF idx + 1 > Len(msg_list) THEN "loop" ELSE "dispatch"
               /\ UNCHANGED << calls, exc >>
               /\ UnchangedHandlerFrame
          ELSE /\ CallHandler(h, msg_list[idx], idx)
               /\ UNCHANGED << exc, idx >>
    /\ UNCHANGED << state, receives, msg_list, control, initCount, cleanup >>
    /\ UnchangedConfig /\ UnchangedSignal
    /\ UnchangedOutside

\* A dispatch that starts the cleanup itself when it sees the poison pill,
\* before the pill's transition has run.
DispatchKillsInline ==
    /\ Running /\ pc = "dispatch"
    /\ LET h == get_corresponding_handler(handlers, msg_list[idx]) IN
          IF h = NoHandler
          THEN /\ pc' = "crashed"
               /\ exc' = "UnknowMessageTypeException"
               /\ UNCHANGED << calls, cleanup >>
               /\ UnchangedHandlerFrame
          ELSE /\ CallHandler(h, msg_list[idx], idx)
               /\ cleanup' =
                     IF msg_list[idx] = "PoisonPillMessage"
                     THEN Append(cleanup,
                                 [by |-> "run", op |-> "terminated_behaviour"])
                     ELSE cleanup
               /\ UNCHANGED exc
    /\ UNCHANGED << state, receives, msg_list, idx, control, initCount >>
    /\ UnchangedConfig /\ UnchangedSignal
    /\ UnchangedOutside

\* A dispatch that cleans up before the exception of the lookup leaves
\* run().
DispatchCleansUpOnUnknown ==
    /\ Running /\ pc = "dispatch"
    /\ LET h == get_corresponding_handler(handlers, msg_list[idx]) IN
          IF h = NoHandler
          THEN /\ pc' = "crashed"
               /\ exc' = "UnknowMessageTypeException"
               /\ cleanup' =
                     cleanup \o << [by |-> "run", op |-> "terminated_behaviour"],
                                   [by |-> "run", op |-> "close"] >>
               /\ UNCHANGED calls
               /\ UnchangedHandlerFrame
          ELSE /\ CallHandler(h, msg_list[idx], idx)
               /\ UNCHANGED << exc, cleanup >>
    /\ UNCHANGED << state, receives, msg_list, idx, control, initCount >>
    /\ UnchangedConfig /\ UnchangedSignal
    /\ UnchangedOutside

\* for msg in msg_list: handler = self.get_corresponding_handler(msg) and
\* the call of handler.handle_message(msg, self.state); the exception of
\* the lookup is not caught and ends run().
Dispatch ==
    /\ Running /\ pc = "dispatch"
    /\ LET h == get_corresponding_handler(handlers, msg_list[idx]) IN
          IF h = NoHandler
          THEN /\ pc' = "crashed"
               /\ exc' = "UnknowMessageTypeException"
               /\ UNCHANGED calls
               /\ UnchangedHandlerFrame
          ELSE /\ CallHandler(h, msg_list[idx], idx)
               /\ UNCHANGED exc
    /\ UNCHANGED << state, receives, msg_list, idx, control, initCount,
                    cleanup >>
    /\ UnchangedConfig /\ UnchangedSignal
    /\ UnchangedOutside

\* ------------------------------------------------- StartHandler.handle
UnchangedLoop == UNCHANGED << state, pc, receives, msg_list, idx, calls, exc >>

\* A check that lost its `if state.initialized` branch.
StartHandlerCheckNoGuard ==
    /\ Running /\ pc = "in_handler" /\ handler = StartH /\ hpc = "entry"
    /\ hpc' = IF IsInstance(hmsg, "StartMessage")
              THEN "initialization" ELSE "return"
    /\ UNCHANGED << handler, hmsg, hstate, entry, initCount, cleanup,
                    control >>
    /\ UnchangedLoop /\ UnchangedConfig /\ UnchangedSignal
    /\ UnchangedOutside

\* A check that lost its isinstance test.
StartHandlerCheckNoIsinstance ==
    /\ Running /\ pc = "in_handler" /\ handler = StartH /\ hpc = "entry"
    /\ IF hstate.initialized
       THEN /\ control' = Append(control,
                                 ErrorMessage("Actor already initialized"))
            /\ hpc' = "return"
       ELSE /\ UNCHANGED control
            /\ hpc' = "initialization"
    /\ UNCHANGED << handler, hmsg, hstate, entry, initCount, cleanup >>
    /\ UnchangedLoop /\ UnchangedConfig /\ UnchangedSignal
    /\ UnchangedOutside

\* A check that rejects a second start without replying.
StartHandlerCheckSilentReject ==
    /\ Running /\ pc = "in_handler" /\ handler = StartH /\ hpc = "entry"
    /\ hpc' = IF ~hstate.initialized /\ IsInstance(hmsg, "StartMessage")
              THEN "initialization" ELSE "return"
    /\ UNCHANGED << handler, hmsg, hstate, entry, initCount, cleanup,
                    control >>
    /\ UnchangedLoop /\ UnchangedConfig /\ UnchangedSignal
    /\ UnchangedOutside

\* if state.initialized: send_control(ErrorMessage(...)); return state
\* if not isinstance(msg, StartMessage): return state
StartHandlerCheck ==
    /\ Running /\ pc = "in_handler" /\ handler = StartH /\ hpc = "entry"
    /\ IF hstate.initialized
       THEN /\ control' = Append(control,
                                 ErrorMessage("Actor already initialized"))
            /\ hpc' = "return"
       ELSE /\ UNCHANGED control
            /\ hpc' = IF IsInstance(hmsg, "StartMessage")
                      THEN "initialization" ELSE "return"
    /\ UNCHANGED << handler, hmsg, hstate, entry, initCount, cleanup >>
    /\ UnchangedLoop /\ UnchangedConfig /\ UnchangedSignal
    /\ UnchangedOutside

\* state = self.initialization(state)
StartHandlerInitialization ==
    /\ Running /\ pc = "in_handler" /\ handler = StartH
    /\ hpc = "initialization"
    /\ hstate' = initialization(hstate)
    /\ initCount' = initCount + 1
    /\ hpc' = "set_initialized"
    /\ UNCHANGED << handler, hmsg, entry, control, cleanup >>
    /\ UnchangedLoop /\ UnchangedConfig /\ UnchangedSignal
    /\ UnchangedOutside

\* A handler that never records that the actor is initialized.
StartHandlerForgetsInitialized ==
    /\ Running /\ pc = "in_handler" /\ handler = StartH
    /\ hpc = "set_initialized"
    /\ hpc' = "send_ok"
    /\ UNCHANGED << handler, hmsg, hstate, entry, control, initCount,
                    cleanup >>
    /\ UnchangedLoop /\ UnchangedConfig /\ UnchangedSignal
    /\ UnchangedOutside

\* state.initialized = True
StartHandlerSetInitialized ==
    /\ Running /\ pc = "in_handler" /\ handler = StartH
    /\ hpc = "set_initialized"
    /\ hstate' = [hstate EXCEPT !.initialized = TRUE]
    /\ hpc' = "send_ok"
    /\ UNCHANGED << handler, hmsg, entry, control, initCount, cleanup >>
    /\ UnchangedLoop /\ UnchangedConfig /\ UnchangedSignal
    /\ UnchangedOutside

\* A handler that forgets the reply.
StartHandlerSendNothing ==
    /\ Running /\ pc = "in_handler" /\ handler = StartH
    /\ hpc = "send_ok"
    /\ hpc' = "return"
    /\ UNCHANGED << handler, hmsg, hstate, entry, initCount, cleanup,
                    control >>
    /\ UnchangedLoop /\ UnchangedConfig /\ UnchangedSignal
    /\ UnchangedOutside

\* state.socket_interface.send_control(OKMessage())
StartHandlerSendOK ==
    /\ Running /\ pc = "in_handler" /\ handler = StartH
    /\ hpc = "send_ok"
    /\ control' = Append(control, OKMessage)
    /\ hpc' = "return"
    /\ UNCHANGED << handler, hmsg, hstate, entry, initCount, cleanup >>
    /\ UnchangedLoop /\ UnchangedConfig /\ UnchangedSignal
    /\ UnchangedOutside

\* ------------------------------------------------------ the other handlers
\* The handler of the poison pill: it clears alive and swaps the behaviour.
PoisonPillHandle ==
    /\ Running /\ pc = "in_handler" /\ handler = PillH /\ hpc = "entry"
    /\ hstate' = [hstate EXCEPT !.alive = FALSE, !.behaviour = "terminated"]
    /\ hpc' = "return"
    /\ UNCHANGED << handler, hmsg, entry, control, initCount, cleanup >>
    /\ UnchangedLoop /\ UnchangedConfig /\ UnchangedSignal
    /\ UnchangedOutside

\* An application handler: it leaves its mark in the state it returns.
AppHandle ==
    /\ Running /\ pc = "in_handler" /\ handler \in AppHandlers
    /\ hpc = "entry"
    /\ hstate' = [hstate EXCEPT !.data = handler]
    /\ hpc' = "return"
    /\ UNCHANGED << handler, hmsg, entry, control, initCount, cleanup >>
    /\ UnchangedLoop /\ UnchangedConfig /\ UnchangedSignal
    /\ UnchangedOutside

\* A handler whose transition raises: nothing in run() catches it.
CrashHandle ==
    /\ Running /\ pc = "in_handler" /\ handler = CrashH /\ hpc = "entry"
    /\ pc' = "crashed"
    /\ exc' = "HandlerError"
    /\ hpc' = "raised"
    /\ UNCHANGED << handler, hmsg, hstate, entry, state, receives, msg_list,
                    idx, calls, control, initCount, cleanup >>
    /\ UnchangedConfig /\ UnchangedSignal
    /\ UnchangedOutside

\* A loop that calls the handler and drops the state it returns.
HandlerReturnDropsState ==
    /\ Running /\ pc = "in_handler" /\ hpc = "return"
    /\ calls' = [calls EXCEPT ![Len(calls)].returned = TRUE,
                              ![Len(calls)].result = hstate]
    /\ hpc' = "none"
    /\ IF msg_list = << >>
       THEN /\ pc' = "loop"
            /\ UNCHANGED idx
       ELSE /\ idx' = idx + 1
            /\ pc' = IF idx + 1 > Len(msg_list) THEN "loop" ELSE "dispatch"
    /\ UNCHANGED << state, handler, hmsg, hstate, entry, receives, msg_list,
                    control, initCount, cleanup, exc >>
    /\ UnchangedConfig /\ UnchangedSignal
    /\ UnchangedOutside

\* A for loop that tests alive after every message and leaves the batch
\* when a transition cleared it.
HandlerReturnChecksAlive ==
    /\ Running /\ pc = "in_handler" /\ hpc = "return"
    /\ state' = hstate
    /\ calls' = [calls EXCEPT ![Len(calls)].returned = TRUE,
                              ![Len(calls)].result = hstate]
    /\ hpc' = "none"
    /\ IF msg_list = << >>
       THEN /\ pc' = "loop"
            /\ UNCHANGED idx
       ELSE /\ idx' = idx + 1
            /\ pc' = IF idx + 1 > Len(msg_list) \/ ~hstate.alive
                     THEN "loop" ELSE "dispatch"
    /\ UNCHANGED << handler, hmsg, hstate, entry, receives, msg_list, control,
                    initCount, cleanup, exc >>
    /\ UnchangedConfig /\ UnchangedSignal
    /\ UnchangedOutside

\* The transition returns: self.state = <the returned state>, and the for
\* loop moves on; after the last message (or the timeout call) control is
\* back at the while test of run().
HandlerReturn ==
    /\ Running /\ pc = "in_handler" /\ hpc = "return"
    /\ state' = hstate
    /\ calls' = [calls EXCEPT ![Len(calls)].returned = TRUE,
                              ![Len(calls)].result = hstate]
    /\ hpc' = "none"
    /\ IF msg_list = << >>
       THEN /\ pc' = "loop"
            /\ UNCHANGED idx
       ELSE /\ idx' = idx + 1
            /\ pc' = IF idx + 1 > Len(msg_list) THEN "loop" ELSE "dispatch"
    /\ UNCHANGED << handler, hmsg, hstate, entry, receives, msg_list, control,
                    initCount, cleanup, exc >>
    /\ UnchangedConfig /\ UnchangedSignal
    /\ UnchangedOutside

\* --------------------------------------------------------- _kill_process
\* One call of _kill_process by caller `by`, at position p of it.
terminated_behaviour(by) ==
    cleanup' = Append(cleanup, [by |-> by, op |-> "terminated_behaviour"])

socket_close(by) ==
    cleanup' = Append(cleanup, [by |-> by, op |-> "close"])

UnchangedActor ==
    UNCHANGED << state, receives, msg_list, idx, calls, control, initCount,
                 exc >>

\* A _kill_process that closes the transport before anything else.
KillClosesFirst ==
    /\ Running /\ pc = "kill_tb"
    /\ socket_close("run")
    /\ pc' = "kill_close"
    /\ UnchangedActor
    /\ UnchangedConfig /\ UnchangedHandlerFrame /\ UnchangedSignal
    /\ UnchangedOutside

\* run(): self._kill_process() -> self.terminated_behaviour()
KillTerminatedBehaviour ==
    /\ Running /\ pc = "kill_tb"
    /\ terminated_behaviour("run")
    /\ pc' = "kill_close"
    /\ UnchangedActor
    /\ UnchangedConfig /\ UnchangedHandlerFrame /\ UnchangedSignal
    /\ UnchangedOutside

\* run(): self._kill_process() -> self.state.socket_interface.close()
KillClose ==
    /\ Running /\ pc = "kill_close"
    /\ socket_close("run")
    /\ pc' = "kill_log"
    /\ UnchangedActor
    /\ UnchangedConfig /\ UnchangedHandlerFrame /\ UnchangedSignal
    /\ UnchangedOutside

\* run(): self.log("terminated"), run() returns and the process ends.
RunReturn ==
    /\ Running /\ pc = "kill_log"
    /\ pc' = "done"
    /\ UNCHANGED cleanup
    /\ UnchangedActor
    /\ UnchangedConfig /\ UnchangedHandlerFrame /\ UnchangedSignal
    /\ UnchangedOutside

\* ------------------------------------------------------ SIGTERM / SIGINT
\* A signal is delivered while term_handler is installed and the process
\* has not ended: term_handler starts on top of whatever was executing
\* (run(), a transition, _kill_process, or an earlier term_handler).
\* Nothing that was interrupted resumes before term_handler returns, and
\* it never returns.
SignalDelivered ==
    /\ installed /\ ~Ended
    /\ signals < MaxSignals
    /\ signals' = signals + 1
    /\ sigpc' = "kill_tb"
    /\ UNCHANGED << pc, installed, cleanup >>
    /\ UnchangedActor
    /\ UnchangedConfig /\ UnchangedHandlerFrame
    /\ UnchangedOutside

\* term_handler: self._kill_process() -> self.terminated_behaviour()
SignalTerminatedBehaviour ==
    /\ sigpc = "kill_tb"
    /\ terminated_behaviour("term_handler")
    /\ sigpc' = "kill_close"
    /\ UNCHANGED << pc, installed, signals >>
    /\ UnchangedActor
    /\ UnchangedConfig /\ UnchangedHandlerFrame
    /\ UnchangedOutside

\* term_handler: self._kill_process() -> socket_interface.close()
SignalClose ==
    /\ sigpc = "kill_close"
    /\ socket_close("term_handler")
    /\ sigpc' = "exit"
    /\ UNCHANGED << pc, installed, signals >>
    /\ UnchangedActor
    /\ UnchangedConfig /\ UnchangedHandlerFrame
    /\ UnchangedOutside

\* A term_handler without exit(0): it returns to what it interrupted.
SignalReturns ==
    /\ sigpc = "exit"
    /\ sigpc' = "none"
    /\ UNCHANGED << pc, installed, signals, cleanup >>
    /\ UnchangedActor
    /\ UnchangedConfig /\ UnchangedHandlerFrame
    /\ UnchangedOutside

\* term_handler: exit(0) ends the process; nothing interrupted resumes.
SignalExit ==
    /\ sigpc = "exit"
    /\ pc' = "exited"
    /\ sigpc' = "none"
    /\ UNCHANGED << installed, signals, cleanup >>
    /\ UnchangedActor
    /\ UnchangedConfig /\ UnchangedHandlerFrame
    /\ UnchangedOutside

\* ---------------------------------------------------------- specification
Next ==
    \/ AddHandler
    \/ SetTimeoutHandler
    \/ StartProcess
    \/ Setup
    \/ LoopCheck
    \/ Receive
    \/ Timeout
    \/ Dispatch
    \/ StartHandlerCheck
    \/ StartHandlerInitialization
    \/ StartHandlerSetInitialized
    \/ StartHandlerSendOK
    \/ PoisonPillHandle
    \/ AppHandle
    \/ CrashHandle
    \/ HandlerReturn
    \/ KillTerminatedBehaviour
    \/ KillClose
    \/ RunReturn
    \/ SignalDelivered
    \/ SignalTerminatedBehaviour
    \/ SignalClose
    \/ SignalExit

Spec == Init /\ [][Next]_vars

\* The steps the actor's own process takes once it can: every statement of
\* run(), of a transition and of term_handler.  Not among them are the
\* parent's calls, the delivery of a signal, and receive(), which returns
\* only when the environment sends something or the timeout expires.
ProcessStep ==
    \/ Setup
    \/ LoopCheck
    \/ Timeout
    \/ Dispatch
    \/ StartHandlerCheck
    \/ StartHandlerInitialization
    \/ StartHandlerSetInitialized
    \/ StartHandlerSendOK
    \/ PoisonPillHandle
    \/ AppHandle
    \/ CrashHandle
    \/ HandlerReturn
    \/ KillTerminatedBehaviour
    \/ KillClose
    \/ RunReturn
    \/ SignalTerminatedBehaviour
    \/ SignalClose
    \/ SignalExit

\* The actor under a scheduler that lets its process run.
FairSpec == Spec /\ WF_vars(ProcessStep)

\* ----------------------------------------------------------------- Filter
\* Filter.filter: self.filters.append((rule, dispatcher))
filter(fs, rule, dispatcher) == Append(fs, <<rule, dispatcher>>)

RECURSIVE RouteLoopFirstMatch(_, _, _, _, _)
\* A route loop that stops at the first rule that accepts the report.
RouteLoopFirstMatch(fs, r, i, dispatchers, evaluated) ==
    IF i > Len(fs)
    THEN [raised |-> "none", evaluated |-> evaluated, result |-> dispatchers]
    ELSE IF Accepts(fs[i][1], r)
         THEN [raised |-> "none", evaluated |-> Append(evaluated, i),
               result |-> Append(dispatchers, fs[i][2])]
         ELSE RouteLoopFirstMatch(fs, r, i + 1, dispatchers,
                                  Append(evaluated, i))

RECURSIVE RouteLoop(_, _, _, _, _)
\* The for loop of Filter.route from entry i on, with the dispatchers
\* collected and the rules evaluated so far.
RouteLoop(fs, r, i, dispatchers, evaluated) ==
    IF i > Len(fs)
    THEN [raised |-> "none", evaluated |-> evaluated, result |-> dispatchers]
    ELSE RouteLoop(fs, r, i + 1,
                   IF Accepts(fs[i][1], r)
                   THEN Append(dispatchers, fs[i][2])
                   ELSE dispatchers,
                   Append(evaluated, i))

\* Filter.route(report)
route(fs, r) ==
    IF fs = << >>
    THEN [raised |-> "RuntimeError", evaluated |-> << >>, result |-> NoList]
    ELSE RouteLoop(fs, r, 1, << >>, << >>)

\* A rule is registered on the filter.
FilterRule ==
    /\ Len(filters) < MaxFilters
    /\ \E rule \in Rules, dispatcher \in Dispatchers :
          filters' = filter(filters, rule, dispatcher)
    /\ UNCHANGED routed
    /\ UNCHANGED << actorVars, callerVars, hwpcVars, mongoVars >>

\* A report is routed.
Route ==
    /\ \E r \in Reports :
          LET out == route(filters, r) IN
             routed' = [called |-> TRUE, report |-> r, filters |-> filters,
                        raised |-> out.raised, evaluated |-> out.evaluated,
                        result |-> out.result]
    /\ UNCHANGED filters
    /\ UNCHANGED << actorVars, callerVars, hwpcVars, mongoVars >>

NextFilter ==
    \/ FilterRule
    \/ Route

SpecFilter == Init /\ [][NextFilter]_vars

\* ------------------------------------------------------- HWPCReportsGroup
RECURSIVE RowsOfDict(_, _)
\* The four nested for loops of create_reports_group_from_dicts over one
\* dictionary, from place i of the iteration order on: a row for each
\* event value.
RowsOfDict(d, i) ==
    IF i > Len(KeyOrder) THEN << >>
    ELSE (IF KeyOrder[i] \in DOMAIN d.groups
          THEN << [target |-> d.target, key |-> KeyOrder[i],
                   value |-> d.groups[KeyOrder[i]]] >>
          ELSE << >>) \o RowsOfDict(d, i + 1)

RECURSIVE RowsOfDicts(_, _)
\* The outer for loop of create_reports_group_from_dicts from dictionary n
\* on.
RowsOfDicts(dicts, n) ==
    IF n > Len(dicts) THEN << >>
    ELSE RowsOfDict(dicts[n], 1) \o RowsOfDicts(dicts, n + 1)

\* ReportsGroup.is_basic_information_in_reports_dict: every dictionary
\* has a timestamp, a sensor and a target.
is_basic_information_in_reports_dict(dicts) ==
    \A n \in 1..Len(dicts) :
       {"timestamp", "sensor", "target"} \subseteq dicts[n].keys

\* HWPCReportsGroup.is_information_in_reports_dict
is_information_in_reports_dict(dicts) ==
    /\ \A n \in 1..Len(dicts) : "groups" \in dicts[n].keys
    /\ is_basic_information_in_reports_dict(dicts)

\* A creation that raises without saying which input was wrong.
create_reports_group_without_input_data(dicts) ==
    IF ~is_information_in_reports_dict(dicts)
    THEN [raised |-> [exception |-> "BadInputDataException",
                      input_data |-> << >>],
          report |-> << >>]
    ELSE [raised |-> NoException, report |-> RowsOfDicts(dicts, 1)]

\* HWPCReportsGroup.create_reports_group_from_dicts: what it raises, and
\* the rows of the report of the new group when it raises nothing.
create_reports_group_from_dicts(dicts) ==
    IF ~is_information_in_reports_dict(dicts)
    THEN [raised |-> [exception |-> "BadInputDataException",
                      input_data |-> dicts],
          report |-> << >>]
    ELSE [raised |-> NoException, report |-> RowsOfDicts(dicts, 1)]

RECURSIVE GroupByTarget(_, _, _)
\* self.report.groupby(TARGET_CN, sort=False).indices.keys(): the targets
\* of the rows from row i on that are not in seen, each once, in the order
\* of their first row.
GroupByTarget(rows, i, seen) ==
    IF i > Len(rows) THEN << >>
    ELSE IF rows[i].target \in seen
         THEN GroupByTarget(rows, i + 1, seen)
         ELSE << rows[i].target >>
              \o GroupByTarget(rows, i + 1, seen \cup {rows[i].target})

RECURSIVE FillGroups(_, _, _, _)
\* The inner for loop of to_mongodb_dict: the rows of the target, from row
\* i on, are written into the groups dictionary g, a later row over an
\* earlier one of the same place.
FillGroups(rows, t, i, g) ==
    IF i > Len(rows) THEN g
    ELSE IF rows[i].target = t
         THEN FillGroups(rows, t, i + 1,
                 [k \in DOMAIN g \cup {rows[i].key} |->
                     IF k = rows[i].key THEN rows[i].value ELSE g[k]])
         ELSE FillGroups(rows, t, i + 1, g)

\* The dictionary objects of to_mongodb_dict: the one that
\* _to_mongodb_dict_basic_infos returned.
BasicsObject == "report_dict_basics"

RECURSIVE ToMongodbLoop(_, _, _, _, _)
\* The outer for loop of to_mongodb_dict from target n on.  heap holds the
\* content of each dictionary object and refs is the list being built, a
\* list of references to objects.  current_report_dict is the object
\* report_dict_basics itself, not a copy of it: each round overwrites its
\* target and its groups and appends it once more.
ToMongodbLoop(rows, ts, n, heap, refs) ==
    IF n > Len(ts) THEN [heap |-> heap, refs |-> refs]
    ELSE LET current_report_dict == BasicsObject
             filled == [target |-> ts[n],
                        groups |-> FillGroups(rows, ts[n], 1, << >>)]
         IN ToMongodbLoop(rows, ts, n + 1,
                          [heap EXCEPT ![current_report_dict] = filled],
                          Append(refs, current_report_dict))

\* HWPCReportsGroup.to_mongodb_dict: the returned list as its caller reads
\* it, each entry through its reference.
to_mongodb_dict(rows) ==
    LET basics == [o \in {BasicsObject} |->
                      [target |-> "none", groups |-> << >>]]
        out == ToMongodbLoop(rows, GroupByTarget(rows, 1, {}), 1, basics,
                             << >>)
    IN [n \in 1..Len(out.refs) |-> out.heap[out.refs[n]]]

\* A group is created from a list of dictionaries.
CreateReportsGroup ==
    /\ hw_pc = "start"
    /\ \E dicts \in InputLists :
          LET out == create_reports_group_from_dicts(dicts) IN
             /\ input_dicts' = dicts
             /\ hw_raised' = out.raised
             /\ report' = out.report
             /\ hw_pc' = IF out.raised.exception = "none" THEN "created"
                         ELSE "raised"
    /\ UNCHANGED << mongodb_dicts, lookup >>
    /\ UNCHANGED << actorVars, callerVars, filterVars, mongoVars >>

\* The group is converted back into a list of dictionaries.
ToMongodbDict ==
    /\ hw_pc = "created"
    /\ mongodb_dicts' = to_mongodb_dict(report)
    /\ hw_pc' = "converted"
    /\ UNCHANGED << input_dicts, hw_raised, report, lookup >>
    /\ UNCHANGED << actorVars, callerVars, filterVars, mongoVars >>

NextHWPC ==
    \/ CreateReportsGroup
    \/ ToMongodbDict

SpecHWPC == Init /\ [][NextHWPC]_vars

\* ----------------------------------------------- the queries of a group
\* The first of a set of places of rows.
FirstIndex(S) == CHOOSE i \in S : \A j \in S : i <= j

RECURSIVE SumValues(_, _)
\* The sum of the values of the rows at the places S.
SumValues(rows, S) ==
    IF S = {} THEN 0
    ELSE LET i == FirstIndex(S) IN rows[i].value + SumValues(rows, S \ {i})

\* groupby([target, groups, socket, core, event]).indices[...]: the places
\* of the rows with the key; the empty set stands for KeyError.
IndicesAll(rows, target, group, socket, core, event_name) ==
    { i \in 1..Len(rows) :
        /\ rows[i].target = target
        /\ rows[i].key = << group, socket, core, event_name >> }

\* groupby([target, groups, socket]).groups[target, group, socket]
IndicesSocket(rows, target, group, socket) ==
    { i \in 1..Len(rows) :
        /\ rows[i].target = target
        /\ rows[i].key[1] = group
        /\ rows[i].key[2] = socket }

\* The rows behind one entry of groupby([target, groups, socket, event]).
IndicesEvent(rows, target, group, socket, event_name) ==
    { i \in 1..Len(rows) :
        /\ rows[i].target = target
        /\ rows[i].key[1] = group
        /\ rows[i].key[2] = socket
        /\ rows[i].key[4] = event_name }

\* HWPCReportsGroup.get_event_value
get_event_value(rows, target, group, socket, core, event_name) ==
    LET indices == IndicesAll(rows, target, group, socket, core, event_name)
    IN IF indices = {} THEN NoneResult
       ELSE ValueResult(rows[FirstIndex(indices)].value)

\* HWPCReportsGroup.get_event_value_first_found_core: the core is the one
\* of the first row of the target, group and socket.
get_event_value_first_found_core(rows, target, group, socket, event_name) ==
    LET socket_rows == IndicesSocket(rows, target, group, socket)
    IN IF socket_rows = {} THEN NoneResult
       ELSE get_event_value(rows, target, group, socket,
                            rows[FirstIndex(socket_rows)].key[3], event_name)

\* HWPCReportsGroup.compute_event_average; the mean of equal integers is
\* computed with the integer division.
compute_event_average(rows, target, group, socket, event_name) ==
    LET indices == IndicesEvent(rows, target, group, socket, event_name)
    IN IF indices = {} THEN NoneResult
       ELSE ValueResult(SumValues(rows, indices) \div Cardinality(indices))

RECURSIVE GroupEventsLoop(_, _, _, _)
\* The for loop of get_group_events over the keys (group, event) of
\* groupby([groups, event], sort=False) from row i on: `group in key` is
\* the membership in the tuple, true when the group or the event of the
\* key equals the argument.
GroupEventsLoop(rows, group, i, seen) ==
    IF i > Len(rows) THEN << >>
    ELSE LET group_events_key == << rows[i].key[1], rows[i].key[4] >> IN
         IF group_events_key \in seen
         THEN GroupEventsLoop(rows, group, i + 1, seen)
         ELSE (IF \/ group = group_events_key[1]
                  \/ group = group_events_key[2]
               THEN << group_events_key[2] >>
               ELSE << >>)
              \o GroupEventsLoop(rows, group, i + 1,
                                 seen \cup {group_events_key})

\* HWPCReportsGroup.get_group_events
get_group_events(rows, group) == GroupEventsLoop(rows, group, 1, {})

\* The elements of a list.
Elements(l) == { l[i] : i \in 1..Len(l) }

\* HWPCReportsGroup.compute_group_event_averages
compute_group_event_averages(rows, group, target, socket) ==
    LET group_events == get_group_events(rows, group) IN
    IF Len(group_events) = 0 THEN NoneResult
    ELSE IF \E e \in Elements(group_events) :
               IndicesEvent(rows, target, group, socket, e) = {}
    THEN NoneResult
    ELSE DictResult([e \in Elements(group_events) |->
            SumValues(rows, IndicesEvent(rows, target, group, socket, e))
              \div Cardinality(IndicesEvent(rows, target, group, socket, e))])

\* HWPCReportsGroup.compute_group_event_sum
compute_group_event_sum(rows, group, target, socket) ==
    LET group_events == get_group_events(rows, group) IN
    IF Len(group_events) = 0 THEN NoneResult
    ELSE IF \E e \in Elements(group_events) :
               IndicesEvent(rows, target, group, socket, e) = {}
    THEN NoneResult
    ELSE DictResult([e \in Elements(group_events) |->
            SumValues(rows, IndicesEvent(rows, target, group, socket, e))])

\* Report.get_targets: the targets of the rows of the report.
get_targets(rows) == { rows[i].target : i \in 1..Len(rows) }

\* HWPCReportsGroup.compute_group_event_sum_excluding_target: every other
\* target adds its sum to every event of the group, a missing sum is a
\* KeyError and the result None; without another target the dictionary
\* stays empty.
compute_group_event_sum_excluding_target(rows, group, target, socket) ==
    LET group_events == get_group_events(rows, group)
        others == get_targets(rows) \ {target}
    IN
    IF Len(group_events) = 0 THEN NoneResult
    ELSE IF \E t \in others : \E e \in Elements(group_events) :
               IndicesEvent(rows, t, group, socket, e) = {}
    THEN NoneResult
    ELSE IF others = {} THEN DictResult(<< >>)
    ELSE DictResult([e \in Elements(group_events) |->
            SumValues(rows,
               UNION { IndicesEvent(rows, t, group, socket, e) :
                          t \in others })])

\* What the query q returns on the report.
LookupResult(rows, q) ==
    CASE q.op = "get_event_value" ->
           get_event_value(rows, q.target, q.group, q.socket, q.core,
                           q.event)
      [] q.op = "get_event_value_first_found_core" ->
           get_event_value_first_found_core(rows, q.target, q.group,
                                            q.socket, q.event)
      [] q.op = "compute_event_average" ->
           compute_event_average(rows, q.target, q.group, q.socket, q.event)
      [] q.op = "get_group_events" ->
           ListResult(get_group_events(rows, q.group))
      [] q.op = "compute_group_event_averages" ->
           compute_group_event_averages(rows, q.group, q.target, q.socket)
      [] q.op = "compute_group_event_sum" ->
           compute_group_event_sum(rows, q.group, q.target, q.socket)
      [] q.op = "compute_group_event_sum_excluding_target" ->
           compute_group_event_sum_excluding_target(rows, q.group, q.target,
                                                    q.socket)

\* The queries: each method with the arguments it has.
Queries ==
    { q \in [op : {"get_event_value", "get_event_value_first_found_core",
                   "compute_event_average", "get_group_events",
                   "compute_group_event_averages", "compute_group_event_sum",
                   "compute_group_event_sum_excluding_target"},
             target : QueryTargets \cup {NoArg},
             group : QueryGroups,
             socket : QuerySockets,
             core : QueryCores,
             event : QueryEvents \cup {NoArg}] :
        /\ (q.target = NoArg) <=> (q.op = "get_group_events")
        /\ (q.op = "get_group_events") => (q.socket = 0)
        /\ (q.op # "get_event_value") => (q.core = 0)
        /\ (q.event = NoArg) <=>
              (q.op \notin {"get_event_value",
                            "get_event_value_first_found_core",
                            "compute_event_average"}) }

\* One of the read-side methods is called on the group.
Lookup ==
    /\ hw_pc = "created"
    /\ \E q \in Queries :
          lookup' = [op |-> q.op, target |-> q.target, group |-> q.group,
                     socket |-> q.socket, core |-> q.core,
                     event |-> q.event, result |-> LookupResult(report, q)]
    /\ hw_pc' = "looked"
    /\ UNCHANGED << input_dicts, hw_raised, report, mongodb_dicts >>
    /\ UNCHANGED << actorVars, callerVars, filterVars, mongoVars >>

NextLookup ==
    \/ CreateReportsGroup
    \/ Lookup

SpecLookup == Init /\ [][NextLookup]_vars

\* ------------------------------------------------------------ MongoSource
\* The document a cursor returns as its n-th: its place in the collection
\* and its timestamp.
Document(n) == [id |-> n, timestamp |-> collection[n]]

\* MongoSource.initialize_current_group_dicts(report_dict)
initialize_current_group_dicts(report_dic) ==
    [timestamp |-> report_dic.timestamp, dicts |-> << report_dic >>]

\* MongoSource.__init__ in batch mode, on a collection of the database.
MongoSourceInit ==
    /\ ms_pc = "new"
    /\ \E c \in Collections : collection' = c
    /\ current_group_dicts' = NoGroupDicts
    /\ ms_pc' = "idle"
    /\ UNCHANGED << cursor, emitted, subscribes >>
    /\ UNCHANGED << actorVars, callerVars, filterVars, hwpcVars >>

\* subscribe(operator): self.cursor = self.collection.find({}), and the
\* while loop is entered.
Subscribe ==
    /\ ms_pc \in {"idle", "returned"}
    /\ subscribes < MaxSubscribes
    /\ subscribes' = subscribes + 1
    /\ cursor' = 0
    /\ emitted' = << >>
    /\ ms_pc' = "reading"
    /\ UNCHANGED << collection, current_group_dicts >>
    /\ UNCHANGED << actorVars, callerVars, filterVars, hwpcVars >>

\* One round of the while loop: self.cursor.next() returns a document,
\* which joins the current group, starts the first one, or starts a new
\* one after the current group was given to on_next.
CursorNext ==
    /\ ms_pc = "reading"
    /\ cursor < Len(collection)
    /\ cursor' = cursor + 1
    /\ LET report_dic == Document(cursor + 1) IN
          IF /\ current_group_dicts # NoGroupDicts
             /\ current_group_dicts.timestamp = report_dic.timestamp
          THEN /\ current_group_dicts' =
                     [current_group_dicts EXCEPT
                         !.dicts = Append(@, report_dic)]
               /\ UNCHANGED emitted
          ELSE IF current_group_dicts = NoGroupDicts
          THEN /\ current_group_dicts' =
                     initialize_current_group_dicts(report_dic)
               /\ UNCHANGED emitted
          ELSE /\ current_group_dicts' =
                     initialize_current_group_dicts(report_dic)
               /\ emitted' = Append(emitted, current_group_dicts.dicts)
    /\ UNCHANGED << ms_pc, collection, subscribes >>
    /\ UNCHANGED << actorVars, callerVars, filterVars, hwpcVars >>

\* A subscribe that gives the current group to on_next when the cursor is
\* exhausted and starts the next one with an empty buffer.
CursorExhaustedFlushes ==
    /\ ms_pc = "reading"
    /\ cursor = Len(collection)
    /\ ms_pc' = "returned"
    /\ emitted' = IF current_group_dicts = NoGroupDicts THEN emitted
                  ELSE Append(emitted, current_group_dicts.dicts)
    /\ current_group_dicts' = NoGroupDicts
    /\ UNCHANGED << collection, cursor, subscribes >>
    /\ UNCHANGED << actorVars, callerVars, filterVars, hwpcVars >>

\* self.cursor.next() raises StopIteration: subscribe returns.
CursorExhausted ==
    /\ ms_pc = "reading"
    /\ cursor = Len(collection)
    /\ ms_pc' = "returned"
    /\ UNCHANGED << collection, cursor, current_group_dicts, emitted,
                    subscribes >>
    /\ UNCHANGED << actorVars, callerVars, filterVars, hwpcVars >>

NextMongo ==
    \/ MongoSourceInit
    \/ Subscribe
    \/ CursorNext
    \/ CursorExhausted

SpecMongo == Init /\ [][NextMongo]_vars

\* ------------------------------------------------- the caller of kill()
\* Actor.monitor(context), called in the process that supervises a started
\* actor: self.state.socket_interface.monitor(context)
Monitor ==
    /\ pc # "constructed"
    /\ kpc = "idle" /\ ~connected
    /\ connected' = TRUE
    /\ UNCHANGED << kpc, monitor >>
    /\ UNCHANGED << actorVars, filterVars, hwpcVars, mongoVars >>

\* kill(): self.send_monitor(PoisonPillMessage()), which returns when the
\* socket has taken the message.
KillSendMonitor ==
    /\ kpc = "idle" /\ connected
    /\ monitor' = Append(monitor, "PoisonPillMessage")
    /\ kpc' = "sent"
    /\ UNCHANGED connected
    /\ UNCHANGED << actorVars, filterVars, hwpcVars, mongoVars >>

\* A kill() that disconnects only when the actor's process has ended.
KillDisconnectWaits ==
    /\ kpc = "sent" /\ Ended
    /\ connected' = FALSE
    /\ kpc' = "returned"
    /\ UNCHANGED monitor
    /\ UNCHANGED << actorVars, filterVars, hwpcVars, mongoVars >>

\* kill(): self.log(...); self.state.socket_interface.disconnect(), and
\* kill() returns.
KillDisconnect ==
    /\ kpc = "sent"
    /\ connected' = FALSE
    /\ kpc' = "returned"
    /\ UNCHANGED monitor
    /\ UNCHANGED << actorVars, filterVars, hwpcVars, mongoVars >>

\* The actor together with a process that monitors it and calls kill().
NextKill ==
    \/ Next
    \/ Monitor
    \/ KillSendMonitor
    \/ KillDisconnect

SpecKill == Init /\ [][NextKill]_vars

\* ------------------------------------------------------------ properties
\* The entries of the table whose registered type the message is an
\* instance of.
Matching(table, msg) ==
    { i \in 1..Len(table) : IsInstance(msg, table[i][1]) }

\* The least element of a non-empty set of entry positions.
First(S) == CHOOSE i \in S : \A j \in S : i <= j

\* How often operation op occurs in the cleanup log.
CleanupCount(op) ==
    Cardinality({ k \in 1..Len(cleanup) : cleanup[k].op = op })

\* run() has left the loop and called _kill_process.
RunCleanupStarted ==
    \/ (Running /\ pc \in {"kill_close", "kill_log", "done"})
    \/ \E k \in 1..Len(cleanup) : cleanup[k].by = "run"

\* The transitions a completely handled receive consists of.
BatchCalls == IF msg_list = << >> THEN 1 ELSE Len(msg_list)

\* StartHandler.handle is about to return.
StartHandleReturns ==
    pc = "in_handler" /\ handler = StartH /\ hpc = "return"

\* C1: every message of a batch that has been dispatched was given to the
\* handler of the first table entry it is an instance of, once, and to no
\* other handler; a message no entry matches raises
\* UnknowMessageTypeException and starts no transition.
C1_FirstMatchDispatch ==
    /\ \A k \in 1..Len(calls) :
          calls[k].msg # 0 =>
             /\ calls[k].msg = k
             /\ Matching(handlers, msg_list[k]) # {}
             /\ calls[k].handler =
                   handlers[First(Matching(handlers, msg_list[k]))][2]
    /\ (msg_list # << >> /\ pc = "dispatch") => Len(calls) = idx - 1
    /\ (msg_list # << >> /\ pc = "in_handler") =>
          (Len(calls) = idx /\ handler = calls[idx].handler)
    /\ exc = "UnknowMessageTypeException" =>
          /\ Matching(handlers, msg_list[idx]) = {}
          /\ Len(calls) = idx - 1
          /\ hpc = "none"

\* C1 witness: a message that two entries with different handlers match
\* has been handled.
C1_Witness ==
    /\ Len(calls) >= 1 /\ calls[1].returned /\ calls[1].msg = 1
    /\ Cardinality(Matching(handlers, msg_list[1])) = 2
    /\ handlers[1][2] # handlers[2][2]

\* C2: once the loop check has seen alive == false, terminated_behaviour
\* and close are each called exactly once in the whole life of the
\* process, whatever signal arrives later.
C2_CleanupExactlyOnce ==
    RunCleanupStarted =>
       /\ CleanupCount("terminated_behaviour") <= 1
       /\ CleanupCount("close") <= 1
       /\ Ended => /\ CleanupCount("terminated_behaviour") = 1
                   /\ CleanupCount("close") = 1

\* C3: from the delivery of a signal on, the process executes only
\* term_handler: terminated_behaviour, then close, then the exit; no
\* receive, lookup, transition or state change of run() happens any more,
\* and the process ends exited with the handler's cleanup done in order.
C3_SignalCleanupThenExit ==
    /\ [][signals > 0 =>
             /\ UNCHANGED << state, receives, msg_list, idx, calls, control,
                             initCount, handler, hmsg, hpc, hstate, exc >>
             /\ pc' \in {pc, "exited"}]_vars
    /\ [](signals > 0 => (sigpc # "none" \/ pc = "exited"))
    /\ [](sigpc = "kill_close" =>
             cleanup[Len(cleanup)] =
                [by |-> "term_handler", op |-> "terminated_behaviour"])
    /\ []((sigpc = "exit" \/ pc = "exited") =>
             /\ Len(cleanup) >= 2
             /\ cleanup[Len(cleanup) - 1] =
                   [by |-> "term_handler", op |-> "terminated_behaviour"]
             /\ cleanup[Len(cleanup)] =
                   [by |-> "term_handler", op |-> "close"])

\* C3 witness: a signal that arrived inside the dispatch of a batch has
\* ended the process.
C3_Witness ==
    pc = "exited" /\ receives >= 1 /\ Len(calls) < BatchCalls

\* C4 as stated: no cleanup of either path has started while a transition
\* is in flight.
C4_NoCleanupMidTransition ==
    cleanup # << >> => pc # "in_handler"

\* C4 amended: the cleanup of run() (the poison pill's path) starts only
\* when every transition of the batch has returned; only term_handler's
\* cleanup can be in the log while a transition is in flight.
C4_RunCleanupAfterTransitions ==
    /\ RunCleanupStarted =>
          /\ hpc = "none"
          /\ Len(calls) = BatchCalls
          /\ \A k \in 1..Len(calls) : calls[k].returned
    /\ (cleanup # << >> /\ pc = "in_handler") =>
          \A k \in 1..Len(cleanup) : cleanup[k].by = "term_handler"

\* C4 witness: run() has started its cleanup after a batch whose first
\* message stopped the actor and whose second was still handled.
C4_Witness ==
    /\ RunCleanupStarted /\ Len(msg_list) = 2
    /\ calls[1].handler = PillH /\ calls[2].returned

\* C5: the transitions of a batch are started in arrival order, each one
\* with the state its predecessor returned and only after that one has
\* returned; between two receives the state is the last returned state;
\* receive is called only when every transition of the batch has returned.
C5_SerialDispatch ==
    /\ [](\A k \in 1..Len(calls) :
             /\ calls[k].msg \in {0, k}
             /\ k < Len(calls) => calls[k].returned
             /\ k > 1 => calls[k].passed = calls[k - 1].result)
    /\ []((calls # << >> /\ calls[Len(calls)].returned) =>
             state = calls[Len(calls)].result)
    /\ [][Len(calls') = 1 => calls'[1].passed = state]_calls
    /\ [][receives' # receives =>
             /\ hpc \in {"none"}
             /\ pc = "behaviour"
             /\ \A k \in 1..Len(calls) : calls[k].returned
             /\ receives > 0 => Len(calls) = BatchCalls]_vars

\* C5 witness: two transitions of one batch have returned and the first
\* changed the state.
C5_Witness ==
    /\ Len(calls) = 2 /\ calls[2].returned
    /\ calls[1].result # calls[1].passed
    /\ calls[2].result # calls[2].passed

\* C6: a message without handler ends run() with the exception: every
\* message before it was handled, neither it nor any later message of the
\* batch starts a transition, and the process takes no further step.
C6_UnknownMessageEndsLoop ==
    /\ [](msg_list # << >> => (idx - 1 <= Len(calls) /\ Len(calls) <= idx))
    /\ [](exc = "UnknowMessageTypeException" =>
             /\ pc = "crashed"
             /\ Matching(handlers, msg_list[idx]) = {}
             /\ Len(calls) = idx - 1
             /\ \A k \in 1..Len(calls) : calls[k].returned)
    /\ [][exc = "none"]_vars

\* C6 witness: the first message of a batch had no handler and the second,
\* which has one, was never dispatched.
C6_Witness ==
    /\ exc = "UnknowMessageTypeException" /\ idx = 1 /\ Len(msg_list) = 2
    /\ Matching(handlers, msg_list[2]) # {}
    /\ calls = << >>

\* The reply to a start request that comes too late.
AlreadyInitialized == ErrorMessage("Actor already initialized")

\* C7: when StartHandler.handle returns from a StartMessage it was given
\* with initialized == false, initialization has run exactly once in the
\* call, exactly one message, an OKMessage, has been sent on the control
\* channel, and the returned state is initialization's result with
\* initialized == true.
C7_StartInitializes ==
    (StartHandleReturns /\ IsInstance(hmsg, "StartMessage")
        /\ ~entry.state.initialized) =>
       /\ initCount = entry.initCount + 1
       /\ control = Append(entry.control, OKMessage)
       /\ hstate = [initialization(entry.state) EXCEPT !.initialized = TRUE]
       /\ hstate.initialized

\* C7 witness: the handler is about to return from the first StartMessage.
C7_Witness ==
    /\ StartHandleReturns /\ hmsg = "StartMessage"
    /\ ~entry.state.initialized /\ hstate.initialized
    /\ control = << OKMessage >>

\* C8: when StartHandler.handle returns from a StartMessage it was given
\* with initialized == true, it has sent exactly one message, the
\* ErrorMessage, has not run initialization, and returns the state it was
\* given.
C8_StartRejected ==
    (StartHandleReturns /\ IsInstance(hmsg, "StartMessage")
        /\ entry.state.initialized) =>
       /\ control = Append(entry.control, AlreadyInitialized)
       /\ initCount = entry.initCount
       /\ hstate = entry.state
       /\ hstate.initialized

\* C8 witness: a second late StartMessage is rejected like the first.
C8_Witness ==
    /\ StartHandleReturns /\ hmsg = "StartMessage"
    /\ entry.state.initialized
    /\ control = << OKMessage, AlreadyInitialized, AlreadyInitialized >>
    /\ initCount = 1

\* C9 as stated: whatever the state, a message that is no StartMessage
\* leaves the state, the initialization count and the control channel as
\* they were.
C9_NonStartSilent ==
    (StartHandleReturns /\ ~IsInstance(hmsg, "StartMessage")) =>
       /\ hstate = entry.state
       /\ initCount = entry.initCount
       /\ control = entry.control

\* C9 amended: a message that is no StartMessage never runs initialization
\* and never changes the state; it is silent only while the actor is not
\* initialized, and is answered with the ErrorMessage once it is.
C9_NonStartSilentBeforeInit ==
    (StartHandleReturns /\ ~IsInstance(hmsg, "StartMessage")) =>
       /\ hstate = entry.state
       /\ initCount = entry.initCount
       /\ control = IF entry.state.initialized
                    THEN Append(entry.control, AlreadyInitialized)
                    ELSE entry.control

\* C9 witness: the handler returns from a report it got before any start.
C9_Witness ==
    /\ StartHandleReturns /\ hmsg \in {"Report", "HWPCReport"}
    /\ ~entry.state.initialized
    /\ control = << >>

\* C10: a handled StartMessage is answered by exactly one message, OK if
\* the actor was not initialized and the error otherwise, so that the
\* control channel holds one OKMessage followed by ErrorMessages only.
C10_OneReplyPerStart ==
    /\ (StartHandleReturns /\ IsInstance(hmsg, "StartMessage")) =>
          /\ Len(control) = Len(entry.control) + 1
          /\ control[Len(control)] =
                IF entry.state.initialized THEN AlreadyInitialized
                ELSE OKMessage
    /\ \A k \in 1..Len(control) :
          control[k] = (IF k = 1 THEN OKMessage ELSE AlreadyInitialized)

\* C10 witness: two StartMessages of one batch have been answered.
C10_Witness ==
    /\ Len(calls) = 2 /\ calls[2].returned
    /\ msg_list = << "StartMessage", "StartMessage" >>
    /\ calls[1].handler = StartH /\ calls[2].handler = StartH
    /\ control = << OKMessage, AlreadyInitialized >>

\* The places of run() and _kill_process after a receive has been handled
\* completely.
AfterBatch == {"loop", "behaviour", "kill_tb", "kill_close", "kill_log", "done"}

\* C11: after a receive that returned the empty list the timeout handler,
\* and no other handler, is called exactly once, with None as the message
\* and the actor's state of that moment, and when the call has returned
\* the actor's state is the state the call returned.
C11_TimeoutHandlerOnce ==
    /\ (msg_list = << >> /\ calls # << >>) =>
          /\ Len(calls) = 1
          /\ calls[1].msg = 0
          /\ calls[1].handler = timeout_handler
          /\ handler = timeout_handler /\ hmsg = NoneType
          /\ calls[1].passed = entry.state
          /\ state = IF calls[1].returned THEN calls[1].result
                     ELSE calls[1].passed
    /\ (/\ msg_list = << >> /\ receives > 0 /\ timeout_handler # None
        /\ pc \in AfterBatch) =>
          (Len(calls) = 1 /\ calls[1].returned)

\* C11 witness: the timeout call after a second receive has returned a new
\* state and the loop goes on with it.
C11_Witness ==
    /\ msg_list = << >> /\ receives = 2 /\ pc = "behaviour"
    /\ Len(calls) = 1 /\ calls[1].returned
    /\ calls[1].handler = "HandlerA"
    /\ calls[1].result # calls[1].passed
    /\ state = calls[1].result

\* C12: when the receive returned the empty list and no timeout handler is
\* set, the step raises at once: no handler is called, the state is the
\* one of before, the loop is left with the error and nothing is executed
\* afterwards.
C12_MissingTimeoutHandlerRaises ==
    [][ /\ (Running /\ pc = "timeout" /\ timeout_handler = None
             /\ sigpc' = "none") =>
               /\ pc' = "crashed" /\ exc' = "AttributeError"
               /\ state' = state /\ calls' = calls /\ calls = << >>
               /\ receives' = receives /\ cleanup' = cleanup
        /\ exc = "AttributeError" =>
               /\ timeout_handler = None /\ msg_list = << >>
               /\ UNCHANGED << state, receives, calls, pc, exc >>
      ]_vars

\* C12 witness: the second receive timed out with no timeout handler and
\* the process crashed with the state the first batch left.
C12_Witness ==
    /\ pc = "crashed" /\ exc = "AttributeError"
    /\ timeout_handler = None /\ receives = 2
    /\ state.initialized /\ calls = << >>

\* C15: the behaviour is entered from the while test only, with alive
\* true, and each entry makes one receive; when the while test finds alive
\* false run() goes to _kill_process; every close of the transport comes
\* right after the terminated_behaviour of the same _kill_process call; and
\* once the transport has been closed there is no receive, no handler call
\* and no change of the actor's state.
C15_BehaviourWhileAliveThenCleanup ==
    [][ /\ (pc' = "behaviour" /\ pc # "behaviour") =>
               (pc = "loop" /\ state.alive)
        /\ (receives' # receives) =>
               (pc = "behaviour" /\ state.alive /\ receives' = receives + 1)
        /\ (pc = "behaviour" /\ pc' \notin {"behaviour", "exited"}) =>
               receives' = receives + 1
        /\ (Running /\ pc = "loop" /\ ~state.alive /\ sigpc' = "none") =>
               pc' = "kill_tb"
        /\ \A k \in 1..Len(cleanup') :
               cleanup'[k].op = "close" =>
                  /\ k > 1
                  /\ cleanup'[k - 1] =
                        [by |-> cleanup'[k].by, op |-> "terminated_behaviour"]
        /\ CleanupCount("close") >= 1 =>
               /\ UNCHANGED << state, receives, msg_list, idx, calls, hstate,
                               hpc, control >>
               /\ pc' \in {pc, "kill_log", "done", "exited"}
      ]_vars

\* C15 witness: run() has left the loop after two receives with alive
\* false and has called terminated_behaviour and then close.
C15_Witness ==
    /\ pc = "done" /\ receives = 2 /\ ~state.alive
    /\ cleanup = << [by |-> "run", op |-> "terminated_behaviour"],
                    [by |-> "run", op |-> "close"] >>

\* C16: a registration adds one entry at the end of the handler table and
\* leaves the entries before it as they were; each message type resolves
\* to the handler of the first entry that matches it, so a type that
\* already resolved to a handler resolves to the same handler afterwards,
\* whether the new entry is a catch-all or has the type of an earlier one.
C16_AppendOnlyFirstMatchWins ==
    [][ handlers' # handlers =>
          /\ Len(handlers') = Len(handlers) + 1
          /\ SubSeq(handlers', 1, Len(handlers)) = handlers
          /\ \A m \in MsgTypes :
                /\ Matching(handlers', m) # {} =>
                      get_corresponding_handler(handlers', m) =
                         handlers'[First(Matching(handlers', m))][2]
                /\ Matching(handlers, m) # {} =>
                      get_corresponding_handler(handlers', m) =
                         get_corresponding_handler(handlers, m)
      ]_vars

\* C16 witness: with a catch-all registered after the entry for Report, a
\* Report went to the earlier entry's handler and a StartMessage to the
\* catch-all's.
C16_Witness ==
    /\ handlers = << <<"Report", "HandlerA">>, <<"object", "HandlerB">> >>
    /\ msg_list = << "Report", "StartMessage" >>
    /\ Len(calls) = 2 /\ calls[2].returned
    /\ calls[1].handler = "HandlerA" /\ calls[2].handler = "HandlerB"

\* C14: kill() puts exactly one PoisonPillMessage on the monitor channel
\* and disconnects the caller's side only after that; neither step waits
\* for the actor, so kill() can return in any state of the actor's process.
C14_KillSendsThenDisconnects ==
    /\ kpc = "idle" => monitor = << >>
    /\ kpc \in {"sent", "returned"} => monitor = << "PoisonPillMessage" >>
    /\ kpc = "sent" => (connected /\ ENABLED KillDisconnect)
    /\ kpc = "returned" => ~connected

\* C14 witness: kill() has returned while the actor is alive and in the
\* middle of a transition.
C14_Witness ==
    /\ kpc = "returned" /\ monitor = << "PoisonPillMessage" >>
    /\ ~connected
    /\ state.alive /\ Running /\ pc = "in_handler" /\ hpc = "send_ok"
    /\ cleanup = << >>

\* The receive returned a batch with a PoisonPillMessage.
PillReceived ==
    \E k \in 1..Len(msg_list) : msg_list[k] = "PoisonPillMessage"

\* Every message of the batch resolves to a handler whose transition
\* returns, and the pill to the handler that clears alive.
BatchStopsActor ==
    /\ PillReceived
    /\ \A k \in 1..Len(msg_list) :
          LET h == get_corresponding_handler(handlers, msg_list[k]) IN
             /\ h \notin {NoHandler, CrashH}
             /\ msg_list[k] = "PoisonPillMessage" => h = PillH

\* The transport has been closed and the process has ended.
StoppedAndClosed == Ended /\ CleanupCount("close") >= 1

\* The pill of the batch was given to the handler that clears alive and
\* that transition has returned.
PillHandled ==
    \E k \in 1..Len(calls) :
       /\ calls[k].msg > 0 /\ msg_list[calls[k].msg] = "PoisonPillMessage"
       /\ calls[k].handler = PillH /\ calls[k].returned

Accepting(fs, r) == { i \in 1..Len(fs) : Accepts(fs[i][1], r) }

\* C17: a route on a filter with at least one rule evaluates the rules
\* 1, 2, ..., n once each in that order, raises nothing, and returns the
\* dispatchers of exactly the entries whose rule accepts the report, in
\* the order of the entries, a dispatcher as often as it was accepted; the
\* registered entries are the same after the call.
C17_RouteCollectsAllAccepting ==
    (routed.called /\ routed.filters # << >>) =>
       LET fs == routed.filters
           out == routed.result
       IN /\ routed.raised = "none"
          /\ routed.evaluated = [i \in 1..Len(fs) |-> i]
          /\ Len(out) = Cardinality(Accepting(fs, routed.report))
          /\ \E pos \in [1..Len(out) -> Accepting(fs, routed.report)] :
                /\ \A a, b \in 1..Len(out) : a < b => pos[a] < pos[b]
                /\ \A a \in 1..Len(out) : out[a] = fs[pos[a]][2]
          /\ Len(filters) >= Len(fs)
          /\ SubSeq(filters, 1, Len(fs)) = fs

\* C17 witness: of three rules the first and the third accepted the report,
\* the second did not, and the same dispatcher was returned twice.
C17_Witness ==
    /\ routed.called /\ routed.report = "report1"
    /\ routed.filters = << <<{"report1"}, "dispatcher1">>,
                           <<{"report2"}, "dispatcher2">>,
                           <<{"report1", "report2"}, "dispatcher1">> >>
    /\ routed.result = << "dispatcher1", "dispatcher1" >>
    /\ filters = routed.filters

\* C18 as claimed: a route on a filter without any rule raises the error
\* made for a filter without rules, RouterWithoutRuleException, evaluates
\* no rule and returns no list.
C18_NoRuleRaisesDedicatedError ==
    (routed.called /\ routed.filters = << >>) =>
       /\ routed.raised = "RouterWithoutRuleException"
       /\ routed.evaluated = << >>
       /\ routed.result = NoList

\* The targets of the input dictionaries are pairwise different and every
\* dictionary holds at least one event value.
OneDictPerTarget ==
    /\ \A a, b \in 1..Len(input_dicts) :
          a # b => input_dicts[a].target # input_dicts[b].target
    /\ \A a \in 1..Len(input_dicts) : DOMAIN input_dicts[a].groups # {}

\* C19 as claimed: after create_reports_group_from_dicts and then
\* to_mongodb_dict, every target of the input has a dictionary in the
\* output, and that dictionary holds for each (group, socket, core, event)
\* of the target the value the input held, and nothing else.
C19_RoundTrip ==
    (hw_pc = "converted" /\ OneDictPerTarget) =>
       \A a \in 1..Len(input_dicts) :
          \E n \in 1..Len(mongodb_dicts) :
             /\ mongodb_dicts[n].target = input_dicts[a].target
             /\ mongodb_dicts[n].groups = input_dicts[a].groups

\* C20 as claimed: to_mongodb_dict returns one dictionary for each target
\* of the report, in the order of the targets' first rows, and the i-th
\* dictionary has the i-th target and the event values of exactly the rows
\* of that target.
C20_OneDictPerTargetInOrder ==
    hw_pc = "converted" =>
       LET ts == GroupByTarget(report, 1, {}) IN
          /\ Len(mongodb_dicts) = Len(ts)
          /\ \A n \in 1..Len(ts) :
                /\ mongodb_dicts[n].target = ts[n]
                /\ DOMAIN mongodb_dicts[n].groups =
                      { report[i].key : i \in { j \in 1..Len(report) :
                                                  report[j].target = ts[n] } }
                /\ \A i \in 1..Len(report) :
                      (/\ report[i].target = ts[n]
                       /\ \A j \in (i + 1)..Len(report) :
                             ~(report[j].target = ts[n]
                               /\ report[j].key = report[i].key)) =>
                         mongodb_dicts[n].groups[report[i].key] =
                            report[i].value

\* Some dictionary of the input lacks a required key.
KeyMissing ==
    \E n \in 1..Len(input_dicts) : input_dicts[n].keys # RequiredKeys

\* C21: a creation from a list in which some dictionary lacks timestamp,
\* sensor, target or groups raises BadInputDataException with the given
\* list as its input data, and there is no group and no row; a creation
\* from complete dictionaries raises nothing.
C21_MissingKeyRaisesBadInput ==
    /\ (hw_pc # "start" /\ KeyMissing) =>
          /\ hw_pc = "raised"
          /\ hw_raised = [exception |-> "BadInputDataException",
                          input_data |-> input_dicts]
          /\ report = << >> /\ mongodb_dicts = << >>
    /\ (hw_pc # "start" /\ ~KeyMissing) =>
          (hw_pc # "raised" /\ hw_raised = NoException)

\* C21 witness: the second of two dictionaries has no sensor, the first is
\* complete and has event values, and the creation raised.
C21_Witness ==
    /\ hw_pc = "raised" /\ Len(input_dicts) = 2
    /\ input_dicts[1].keys = RequiredKeys
    /\ DOMAIN input_dicts[1].groups # {}
    /\ input_dicts[2].keys = RequiredKeys \ {"sensor"}
    /\ hw_raised.input_data = input_dicts
    /\ report = << >>

\* ------------------------------------------------------------ MongoSource
\* The groups of a list, one after the other.
RECURSIVE Flatten(_)
Flatten(groups) ==
    IF groups = << >> THEN << >>
    ELSE Head(groups) \o Flatten(Tail(groups))

\* The documents of the collection in the order of the cursor.
CursorRows == [n \in 1..Len(collection) |-> Document(n)]

\* The places where a run of documents of one timestamp starts.
RunStarts ==
    { n \in 1..Len(collection) :
        n = 1 \/ collection[n] # collection[n - 1] }

\* Every document of a group has the timestamp of the first one.
OneTimestamp(group) ==
    \A k \in 1..Len(group) : group[k].timestamp = group[1].timestamp

\* C22: when subscribe returns in batch mode, the groups given to on_next
\* have one timestamp each and, one after the other, are the rows read
\* from the cursor in the order of the cursor: every row read is in
\* exactly one emitted group.
C22_EveryRowEmitted ==
    (ms_pc = "returned") =>
        /\ \A g \in 1..Len(emitted) : OneTimestamp(emitted[g])
        /\ Flatten(emitted) = CursorRows

\* C29: the first subscribe on a source whose collection has k >= 1 runs
\* returns after k - 1 emissions, the rows before the last run in the
\* order of the cursor, with the last run left in current_group_dicts;
\* a later subscribe starts with the buffer the earlier one left, and
\* the first group it emits starts with the documents of that buffer.
C29_LastRunNotFlushed ==
    [][ /\ (ms_pc = "reading" /\ ms_pc' = "returned" /\ subscribes = 1
            /\ collection # << >>) =>
              LET last == CHOOSE n \in RunStarts :
                              \A m \in RunStarts : m <= n
              IN /\ Len(emitted') = Cardinality(RunStarts) - 1
                 /\ Flatten(emitted') = SubSeq(CursorRows, 1, last - 1)
                 /\ current_group_dicts'.timestamp = collection[last]
                 /\ current_group_dicts'.dicts =
                        SubSeq(CursorRows, last, Len(collection))
        /\ (ms_pc = "returned" /\ ms_pc' = "reading") =>
              /\ current_group_dicts' = current_group_dicts
              /\ (collection # << >>) =>
                     current_group_dicts' # NoGroupDicts
        /\ (subscribes = 2 /\ emitted = << >> /\ emitted' # << >>) =>
              LET left == SubSeq(CursorRows,
                                 CHOOSE n \in RunStarts :
                                     \A m \in RunStarts : m <= n,
                                 Len(collection))
              IN SubSeq(emitted'[1], 1, Len(left)) = left
      ]_vars

\* The second subscribe on a collection of two runs has returned: it gave
\* to on_next the run the first subscribe had left in the buffer, before
\* the first run of the cursor.
C29_Witness ==
    /\ ms_pc = "returned" /\ subscribes = 2
    /\ collection = << 1, 2 >>
    /\ emitted = << << [id |-> 2, timestamp |-> 2] >>,
                    << [id |-> 1, timestamp |-> 1] >> >>
    /\ current_group_dicts.dicts = << [id |-> 2, timestamp |-> 2] >>

\* ----------------------------------------------- the queries of a group
\* A query of the method op has returned.
Looked(op) == hw_pc = "looked" /\ lookup.op = op

\* The events the rows of the group have.
EventsOfGroup(group) ==
    { report[i].key[4] :
        i \in { j \in 1..Len(report) : report[j].key[1] = group } }

\* The events the rows of the target, group and socket have.
EventsOfSocket(target, group, socket) ==
    { report[i].key[4] : i \in IndicesSocket(report, target, group, socket) }

\* The result is the dictionary of the sums over the cores of the events
\* of the target, group and socket, or None when the report has no row of
\* them.
IsSumOfSocket(result, target, group, socket) ==
    IF IndicesSocket(report, target, group, socket) = {}
    THEN result = NoneResult
    ELSE /\ result.kind = "dict"
         /\ DOMAIN result.items = EventsOfSocket(target, group, socket)
         /\ \A e \in DOMAIN result.items :
               result.items[e] =
                  SumValues(report,
                            IndicesEvent(report, target, group, socket, e))

\* C23: compute_group_event_sum(group, target, socket) returns the mapping
\* from every event of the target, group and socket to the sum of its
\* values over the cores, and None when the group, target or socket is
\* not in the report.
C23_GroupEventSum ==
    Looked("compute_group_event_sum") =>
        IsSumOfSocket(lookup.result, lookup.target, lookup.group,
                      lookup.socket)

\* C24: compute_group_event_sum_excluding_target(group, target, socket)
\* returns, for every event of the group, the sum of its values for the
\* group and socket over every target but the named one (an event the
\* dictionary does not have counts as the default, 0), and None when the
\* report has no row of the group and socket.
C24_GroupEventSumExcludingTarget ==
    Looked("compute_group_event_sum_excluding_target") =>
        LET socket_rows ==
                { i \in 1..Len(report) :
                    /\ report[i].key[1] = lookup.group
                    /\ report[i].key[2] = lookup.socket }
        IN IF socket_rows = {} THEN lookup.result = NoneResult
           ELSE /\ lookup.result.kind = "dict"
                /\ DOMAIN lookup.result.items
                      \subseteq EventsOfGroup(lookup.group)
                /\ \A e \in EventsOfGroup(lookup.group) :
                      (IF e \in DOMAIN lookup.result.items
                       THEN lookup.result.items[e] ELSE 0) =
                         SumValues(report,
                            { i \in socket_rows :
                                /\ report[i].target # lookup.target
                                /\ report[i].key[4] = e })

\* C25: every read-side lookup returns None when the target, group,
\* socket, core or event asked for is not in the report and the stored
\* value or values when it is; get_event_value_first_found_core returns
\* the value of the event whenever some core of the target, group and
\* socket has it.
C25_LookupsReturnStoredOrNone ==
    /\ Looked("get_event_value") =>
          LET rows == IndicesAll(report, lookup.target, lookup.group,
                                 lookup.socket, lookup.core, lookup.event)
          IN IF rows = {} THEN lookup.result = NoneResult
             ELSE \E i \in rows :
                     lookup.result = ValueResult(report[i].value)
    /\ Looked("get_event_value_first_found_core") =>
          LET rows == IndicesEvent(report, lookup.target, lookup.group,
                                   lookup.socket, lookup.event)
          IN IF rows = {} THEN lookup.result = NoneResult
             ELSE \E i \in rows :
                     lookup.result = ValueResult(report[i].value)
    /\ Looked("compute_event_average") =>
          LET rows == IndicesEvent(report, lookup.target, lookup.group,
                                   lookup.socket, lookup.event)
          IN IF rows = {} THEN lookup.result = NoneResult
             ELSE lookup.result =
                     ValueResult(SumValues(report, rows)
                                    \div Cardinality(rows))
    /\ Looked("compute_group_event_averages") =>
          IF IndicesSocket(report, lookup.target, lookup.group,
                           lookup.socket) = {}
          THEN lookup.result = NoneResult
          ELSE /\ lookup.result.kind = "dict"
               /\ DOMAIN lookup.result.items =
                     EventsOfSocket(lookup.target, lookup.group,
                                    lookup.socket)
    /\ Looked("compute_group_event_sum") =>
          IF IndicesSocket(report, lookup.target, lookup.group,
                           lookup.socket) = {}
          THEN lookup.result = NoneResult
          ELSE lookup.result.kind = "dict"

\* C26: get_group_events(group) returns the events of the rows of the
\* group, each once, and the empty list when no row has the group,
\* whatever the names of the groups and events.
C26_GroupEventsExact ==
    Looked("get_group_events") =>
        /\ lookup.result.kind = "list"
        /\ Elements(lookup.result.items) = EventsOfGroup(lookup.group)
        /\ \A m, n \in 1..Len(lookup.result.items) :
              (lookup.result.items[m] = lookup.result.items[n]) => (m = n)

\* ------------------------------------------------- the batch and alive
\* C27: alive is read by the while test only.  When a transition returns
\* and the batch has a later message, the next step of run() is the lookup
\* of that message whatever alive and behaviour are; the lookup calls the
\* handler it finds, or raises UnknowMessageTypeException, whatever alive
\* is; and the cleanup of run() is entered from the while test only.
C27_AliveReadBetweenBehaviourSteps ==
    [][ /\ (Running /\ pc = "in_handler" /\ pc' # "in_handler"
            /\ hpc = "return" /\ idx < Len(msg_list)) =>
              (pc' = "dispatch" /\ idx' = idx + 1)
        /\ (Running /\ pc = "dispatch" /\ pc' # "dispatch") =>
              LET h == get_corresponding_handler(handlers, msg_list[idx])
              IN IF h = NoHandler
                 THEN pc' = "crashed" /\ exc' = "UnknowMessageTypeException"
                 ELSE /\ pc' = "in_handler" /\ handler' = h
                      /\ hmsg' = msg_list[idx]
                      /\ Len(calls') = Len(calls) + 1
        /\ (pc # "kill_tb" /\ pc' = "kill_tb") =>
              (pc = "loop" /\ ~state.alive)
      ]_vars

\* The second message of a batch was handled by a handler that was passed
\* a state whose alive was already false.
C27_Witness ==
    /\ Len(msg_list) = 2 /\ Len(calls) = 2
    /\ msg_list[1] = "PoisonPillMessage"
    /\ ~calls[2].passed.alive
    /\ calls[2].passed.behaviour = "terminated"
    /\ calls[2].handler \in AppHandlers
    /\ calls[2].returned
    /\ state.data = calls[2].handler

\* C28: when run() is left by an exception, no cleanup has run (neither
\* terminated_behaviour nor close), and state is what the messages of the
\* batch handled before the failure made it: the result of the last call
\* that returned, each call having been passed the result of the one
\* before.
C28_NoCleanupAfterException ==
    (pc = "crashed") =>
        /\ cleanup = << >>
        /\ \A k \in 1..Len(calls) :
              /\ (k < Len(calls)) =>
                    /\ calls[k].returned
                    /\ calls[k + 1].passed = calls[k].result
              /\ (k = Len(calls)) =>
                    state = (IF calls[k].returned THEN calls[k].result
                             ELSE calls[k].passed)

\* The second message of a batch had no handler: run() was left by the
\* exception, and state has the mark of the handler of the first.
C28_Witness ==
    /\ pc = "crashed" /\ exc = "UnknowMessageTypeException"
    /\ Len(msg_list) = 2 /\ Len(calls) = 1
    /\ calls[1].returned
    /\ state.data \in AppHandlers
    /\ state.data # InitState.data
    /\ cleanup = << >>

\* The OKMessages sent on the control channel.
OKMessagesSent == { k \in 1..Len(control) : control[k] = OKMessage }

\* C30: state.initialized never goes back from true to false,
\* initialization() runs at most once in the life of the actor, and at
\* most one OKMessage is ever sent on the control channel.
C30_InitializedOnce ==
    /\ [][state.initialized => state'.initialized]_vars
    /\ [](initCount <= 1)
    /\ [](Cardinality(OKMessagesSent) <= 1)

\* A second StartMessage was handled after the first had initialized the
\* actor.
C30_Witness ==
    /\ Len(calls) = 2
    /\ calls[1].handler = StartH /\ calls[2].handler = StartH
    /\ msg_list = << "StartMessage", "StartMessage" >>
    /\ calls[2].returned
    /\ state.initialized
    /\ initCount = 1
    /\ Cardinality(OKMessagesSent) = 1

=============================================================================
